---- MODULE Spec2Model ----
(***************************************************************************)
(* A model of verticaextractor: the NATIVE-format encoder of src/lib.rs.   *)
(*                                                                         *)
(* Bytes are the naturals 0..255 and byte strings are sequences of them.   *)
(* Integers wider than TLC's own are kept as byte strings (magnitudes,     *)
(* least significant byte first) and computed on with carries, so that a   *)
(* u128 or an i64 keeps its width.                                         *)
(*                                                                         *)
(* Specifications:                                                         *)
(*   Spec         the run of extract(): metadata, header, row loop         *)
(*   SpecBitmap   create_nulls_bitmap applied to bounded null vectors      *)
(*   SpecColDefs  generate_column_definitions applied to bounded schemas   *)
(*   SpecNumeric  the Numeric arm of extract applied to bounded inputs     *)
(*   SpecTimeTz   the TimeTz arm of extract applied to bounded inputs      *)
(*   SpecMain     main() of src/main.rs over what the command line holds   *)
(*   SpecFromString  SqlDataType::from_string applied to type texts        *)
(***************************************************************************)
EXTENDS Integers, Sequences, FiniteSets, TLC

VARIABLES
    pc,            \* where extract() is: "idle" when a pure function is checked
    build,         \* "debug" (overflow checks on) or "release" (wrapping)
    column_types,  \* Vec<ColumnType> returned by get_column_types
    cols,          \* stmt.num_result_cols()
    nulls,         \* Vec<bool>, one flag per column
    values,        \* Vec<Vec<u8>>, the encoded cells of the row in progress
    cursor,        \* the row the cursor is on: one cell per column
    col,           \* the loop variable i of `for i in 1..(cols + 1)`
    rows_written,  \* the counter rows_written
    output_file,   \* the bytes of the output file; NoFile before File::create
    sink,          \* "ok", or "failed" once a write to the file returned Err
    writes,        \* history: the write calls made so far, as <<kind, bytes>>
    fetched,       \* history: the rows fetched so far
    result,        \* what extract() returned: "none", "ok", "err", "panic"
    call           \* a pure function under check: its arguments and its result

vars == <<pc, build, column_types, cols, nulls, values, cursor, col,
          rows_written, output_file, sink, writes, fetched, result, call>>

extractVars == <<pc, column_types, cols, nulls, values, cursor, col,
                 rows_written, output_file, sink, writes, fetched, result>>

----------------------------------------------------------------------------
(* Bounds of the model.                                                    *)

\* longest null vector given to create_nulls_bitmap
MaxNulls == 9
\* longest schema given to generate_column_definitions
MaxDefCols == 2
\* rows the cursor yields before it reports no more rows
MaxRows == 2

----------------------------------------------------------------------------
(* Bytes and fixed-width integers.                                         *)

Byte == 0..255

RECURSIVE Pow2(_)
Pow2(n) == IF n = 0 THEN 1 ELSE 2 * Pow2(n - 1)

\* bit b (0 = least significant) of byte x
Bit(x, b) == (x \div Pow2(b)) % 2 = 1

Reverse(s) == [k \in 1..Len(s) |-> s[Len(s) + 1 - k]]

RECURSIVE Zeros(_)
Zeros(n) == IF n <= 0 THEN <<>> ELSE <<0>> \o Zeros(n - 1)

RECURSIVE Flatten(_)
Flatten(ss) == IF ss = <<>> THEN <<>> ELSE Head(ss) \o Flatten(Tail(ss))

RECURSIVE SumLen(_)
SumLen(ss) == IF ss = <<>> THEN 0 ELSE Len(Head(ss)) + SumLen(Tail(ss))

\* to_le_bytes of an n-byte integer v (two's complement: \div floors and
\* % is non-negative, so a negative v yields its 0xFF extension)
RECURSIVE ToLeBytes(_, _)
ToLeBytes(v, n) ==
    IF n = 0 THEN <<>> ELSE <<v % 256>> \o ToLeBytes(v \div 256, n - 1)

----------------------------------------------------------------------------
(* create_nulls_bitmap (lib.rs 436-456).                                   *)

\* the byte built by the inner loop from one 8-flag subset:
\* byte |= 1 << |i - 7| for every set flag i
RECURSIVE ChunkByte(_, _)
ChunkByte(subset, i) ==
    IF i >= Len(subset) THEN 0
    ELSE (IF subset[i + 1] THEN Pow2(IF i - 7 < 0 THEN 7 - i ELSE i - 7) ELSE 0)
         + ChunkByte(subset, i + 1)

\* the outer loop: `for i in 0..(nulls.len() / 8)`, one byte per whole
\* 8-flag chunk.  bytes_needed is computed by the code and never used.
RECURSIVE BitmapChunks(_, _, _)
BitmapChunks(nl, i, n) ==
    IF i >= n THEN <<>>
    ELSE <<ChunkByte(SubSeq(nl, i * 8 + 1, (i + 1) * 8), 0)>>
         \o BitmapChunks(nl, i + 1, n)

create_nulls_bitmap(c, nl) == BitmapChunks(nl, 0, Len(nl) \div 8)

----------------------------------------------------------------------------
(* SqlDataType (sql_data_type.rs 6-21) and ColumnType (column_type.rs).    *)

SqlDataTypes ==
    {"Integer", "Float", "Char", "Varchar", "Boolean", "Date", "Timestamp",
     "TimestampTz", "Time", "TimeTz", "Varbinary", "Binary", "Numeric",
     "Interval"}

\* Option::None of precision and scale, outside the range of u16
None == -1

ColumnType(t, w, p, s) ==
    [data_type |-> t, width |-> w, precision |-> p, scale |-> s]

----------------------------------------------------------------------------
(* generate_column_definitions (lib.rs 458-500).                           *)

\* mutant of OnWireWidth: Numeric gets no limb beyond precision / 19
OnWireWidth_NoExtraLimb(ct) ==
    CASE ct.data_type \in {"Integer", "Char", "Binary"} -> ct.width
      [] ct.data_type \in {"Varchar", "Varbinary"} -> -1
      [] ct.data_type = "Boolean" -> 1
      [] ct.data_type \in {"Float", "Date", "Timestamp", "TimestampTz",
                           "Time", "TimeTz", "Interval"} -> 8
      [] ct.data_type = "Numeric" ->
            IF ct.precision # None THEN (ct.precision \div 19) * 8 ELSE 0

\* the match of lines 469-489: the column's u32 width (-1 is -1_i32 as u32)
OnWireWidth(ct) ==
    CASE ct.data_type \in {"Integer", "Char", "Binary"} -> ct.width
      [] ct.data_type \in {"Varchar", "Varbinary"} -> -1
      [] ct.data_type = "Boolean" -> 1
      [] ct.data_type \in {"Float", "Date", "Timestamp", "TimestampTz",
                           "Time", "TimeTz", "Interval"} -> 8
      [] ct.data_type = "Numeric" ->
            IF ct.precision # None
            THEN (((ct.precision \div 19) + 1) * 8) % 65536
            ELSE 0

RECURSIVE WidthFields(_)
WidthFields(cts) ==
    IF cts = <<>> THEN <<>>
    ELSE ToLeBytes(OnWireWidth(Head(cts)), 4) \o WidthFields(Tail(cts))

\* version, filler, number of columns, widths: lines 460-492
DefinitionBytes(cts) ==
    ToLeBytes(1, 2) \o <<0>> \o ToLeBytes(Len(cts) % 65536, 2)
    \o WidthFields(cts)

\* mutant of generate_column_definitions: the length counts its own 4 bytes
generate_column_definitions_SelfCounting(cts) ==
    LET bytes == DefinitionBytes(cts)
        header_length == Len(bytes) + 4
    IN  ToLeBytes(header_length, 4) \o bytes

generate_column_definitions(cts) ==
    LET bytes == DefinitionBytes(cts)
        header_length == Len(bytes)
    IN  ToLeBytes(header_length, 4) \o bytes

----------------------------------------------------------------------------
(* Wide naturals: byte strings, least significant byte first.              *)

RECURSIVE MulSmall(_, _, _)
\* a * k + c for a wide a and small k, c
MulSmall(a, k, c) ==
    IF a = <<>>
    THEN (IF c = 0 THEN <<>> ELSE <<c % 256>> \o MulSmall(<<>>, k, c \div 256))
    ELSE LET t == Head(a) * k + c
         IN  <<t % 256>> \o MulSmall(Tail(a), k, t \div 256)

RECURSIVE AddBig(_, _, _)
\* a + b + c for wide a, b and a carry c
AddBig(a, b, c) ==
    IF a = <<>> /\ b = <<>>
    THEN (IF c = 0 THEN <<>> ELSE <<c>>)
    ELSE LET x == IF a = <<>> THEN 0 ELSE Head(a)
             y == IF b = <<>> THEN 0 ELSE Head(b)
             t == x + y + c
         IN  <<t % 256>>
             \o AddBig(IF a = <<>> THEN <<>> ELSE Tail(a),
                       IF b = <<>> THEN <<>> ELSE Tail(b), t \div 256)

RECURSIVE MulBig(_, _)
\* a * b, byte by byte of b from its least significant end
MulBig(a, b) ==
    IF b = <<>> THEN <<>>
    ELSE LET rest == MulBig(a, Tail(b))
         IN  IF Len(rest) >= 0
             THEN AddBig(MulSmall(a, Head(b), 0), <<0>> \o rest, 0)
             ELSE <<>>

RECURSIVE Norm(_)
\* a without its most significant zero bytes
Norm(a) ==
    IF a = <<>> THEN <<>>
    ELSE IF a[Len(a)] = 0 THEN Norm(SubSeq(a, 1, Len(a) - 1)) ELSE a

\* whether a fits the n bytes of the integer type
Fits(a, n) == Len(Norm(a)) <= n

\* a modulo 2^(8n), as exactly n bytes: what wrapping arithmetic keeps
Wrap(a, n) == SubSeq(a \o Zeros(n), 1, n)

----------------------------------------------------------------------------
(* The Numeric arm of extract (lib.rs 329-380).  A text is a sequence of   *)
(* one-character strings.                                                  *)

Digits == <<"0", "1", "2", "3", "4", "5", "6", "7", "8", "9">>

IsDigit(ch) == \E d \in 1..10 : Digits[d] = ch

DigitValue(ch) == (CHOOSE d \in 1..10 : Digits[d] = ch) - 1

RECURSIVE ParseDigits(_, _)
\* the digit loop of from_str: acc * 10 + digit, an error on a character
\* that is no digit and on a value that does not fit 128 bits
ParseDigits(text, acc) ==
    IF text = <<>> THEN [ok |-> TRUE, v |-> Wrap(acc, 16)]
    ELSE IF ~IsDigit(Head(text)) THEN [ok |-> FALSE, v |-> <<>>]
    ELSE LET next == MulSmall(acc, 10, DigitValue(Head(text)))
         IN  IF Fits(next, 16) THEN ParseDigits(Tail(text), next)
             ELSE [ok |-> FALSE, v |-> <<>>]

\* u128::from_str: an empty text and a lone sign are errors, a leading
\* "+" is skipped, and "-" is no digit of an unsigned type
u128_from_str(text) ==
    IF text = <<>> THEN [ok |-> FALSE, v |-> <<>>]
    ELSE IF Len(text) = 1 /\ Head(text) \in {"+", "-"}
         THEN [ok |-> FALSE, v |-> <<>>]
    ELSE IF Head(text) = "+" THEN ParseDigits(Tail(text), <<>>)
    ELSE ParseDigits(text, <<>>)

RECURSIVE Pow10(_)
\* 10^exp, exact
Pow10(exp) == IF exp = 0 THEN <<1>> ELSE MulSmall(Pow10(exp - 1), 10, 0)

\* `num < 0` of line 360: num is a u128, so the comparison is never true
u128_lt_zero(num) == FALSE

\* negate (lib.rs 430-434): bytes[i] ^= 0xFF for i in 0..head
negate(bytes, head) ==
    [k \in 1..Len(bytes) |-> IF k <= head THEN 255 - bytes[k] ELSE bytes[k]]

RECURSIVE SkipWhileZero(_)
SkipWhileZero(bs) ==
    IF bs = <<>> THEN <<>>
    ELSE IF Head(bs) = 0 THEN SkipWhileZero(Tail(bs)) ELSE bs

\* mutant of StripZeroBytes: nothing is dropped
StripZeroBytes_KeepAll(be) == be

\* lines 346-353: iter().rev().skip_while(|b| **b == 0).collect(), then
\* reverse(): the zero bytes at the END of the big-endian array are dropped
StripZeroBytes(be) == Reverse(SkipWhileZero(Reverse(be)))

RECURSIVE ReverseChunks(_, _, _)
\* lines 369-375: each 8-byte chunk of the first 8 * n bytes, reversed
ReverseChunks(padded, i, n) ==
    IF i >= n THEN <<>>
    ELSE Reverse(SubSeq(padded, i * 8 + 1, (i + 1) * 8))
         \o ReverseChunks(padded, i + 1, n)

NumericErr == [kind |-> "err", bytes |-> <<>>]
NumericPanic == [kind |-> "panic", bytes |-> <<>>]

\* the arm for a non-null text value of a column of the given scale and
\* width, under the build's overflow rule: debug panics, release wraps
EncodeNumeric(text, scale, width, bld) ==
    LET parsed == u128_from_str(text)
        exp == IF scale = None THEN 0 ELSE scale
        mulExact == Pow10(exp)
        mul == Wrap(mulExact, 16)
        unscaledExact == MulBig(Norm(parsed.v), Norm(mul))
        unscaled == Wrap(unscaledExact, 16)
        unscaled_bytes == StripZeroBytes(Reverse(unscaled))
        byte_len == Len(unscaled_bytes)
        head == width - byte_len
        padded_bytes == Zeros(head) \o unscaled_bytes
        negated == IF u128_lt_zero(parsed.v)
                   THEN negate(padded_bytes, head) ELSE padded_bytes
    IN  IF ~parsed.ok THEN NumericErr
        ELSE IF bld = "debug" /\ ~Fits(mulExact, 16) THEN NumericPanic
        ELSE IF bld = "debug" /\ ~Fits(unscaledExact, 16) THEN NumericPanic
        \* width - byte_len underflows: a panic in debug, and in release a
        \* vec! of nearly 2^64 bytes, which panics with capacity overflow
        ELSE IF head < 0 THEN NumericPanic
        ELSE [kind |-> "ok",
              bytes |-> ReverseChunks(negated, 0, Len(negated) \div 8)]

----------------------------------------------------------------------------
(* The other arms of the match on col_type.data_type (lib.rs 79-328).      *)
(* An encoder yields [kind, bytes]: "ok" with the cell's bytes, "err" for  *)
(* an Err returned through `?`, "panic" for a panic.                       *)

Encoded(bytes) == [kind |-> "ok", bytes |-> bytes]
EncodePanic == [kind |-> "panic", bytes |-> <<>>]

\* the 8-byte two's complement, least significant byte first, of the i64
\* with magnitude mag (a wide natural) and the given sign
I64LeBytes(negative, mag) ==
    IF ~negative THEN Wrap(mag, 8)
    ELSE Wrap(AddBig([k \in 1..8 |-> 255 - Wrap(mag, 8)[k]], <<1>>, 0), 8)

IsLeapYear(y) == y % 4 = 0 /\ (y % 100 # 0 \/ y % 400 = 0)

DaysInMonth(y, m) ==
    IF m = 2 THEN (IF IsLeapYear(y) THEN 29 ELSE 28)
    ELSE IF m \in {4, 6, 9, 11} THEN 30 ELSE 31

\* what NaiveDate::from_ymd accepts; it panics on anything else
ValidDate(y, m, d) == m \in 1..12 /\ d \in 1..DaysInMonth(y, m)

\* days from 1970-01-01 to y-m-d in the proleptic Gregorian calendar
DaysFromCivil(y, m, d) ==
    LET yy == IF m <= 2 THEN y - 1 ELSE y
        era == yy \div 400
        yoe == yy - era * 400
        mp == IF m > 2 THEN m - 3 ELSE m + 9
        doy == (153 * mp + 2) \div 5 + d - 1
        doe == yoe * 365 + yoe \div 4 - yoe \div 100 + doy
    IN  era * 146097 + doe - 719468

\* (the_date - epoch).num_days(), epoch 2000-01-01
DaysSinceEpoch(y, m, d) == DaysFromCivil(y, m, d) - DaysFromCivil(2000, 1, 1)

\* lines 185-206
EncodeDate(v) ==
    IF ~ValidDate(v.year, v.month, v.day) THEN EncodePanic
    ELSE Encoded(ToLeBytes(DaysSinceEpoch(v.year, v.month, v.day), 8))

\* what from_hms / and_hms_nano accept
ValidTime(h, mi, s) == h \in 0..23 /\ mi \in 0..59 /\ s \in 0..59

SecondOfDay(h, mi, s) == h * 3600 + mi * 60 + s

\* a small natural as a wide one
Wide(n) == Norm(ToLeBytes(n, 4))

\* Duration::num_microseconds of days whole days, sod seconds and nanos
\* nanoseconds (0 <= sod < 86400, 0 <= nanos < 10^9), as sign and magnitude:
\* the value is truncated toward zero.  None, and then 0, would take more
\* than 63 bits, which no i16 year reaches.
DurationMicros(days, sod, nanos) ==
    IF days >= 0
    THEN [negative |-> FALSE,
          mag |-> MulSmall(MulSmall(Wide(days), 86400, sod), 1000000,
                           nanos \div 1000)]
    ELSE LET \* seconds short of zero: -days * 86400 - sod, then the nanos
             wholeSecs == MulSmall(Wide(-days - 1), 86400, 86400 - sod)
             secsUp == IF nanos = 0 THEN wholeSecs
                       ELSE MulSmall(Wide(-days - 1), 86400, 86400 - sod - 1)
             frac == IF nanos = 0 THEN 0 ELSE (1000000000 - nanos) \div 1000
             mag == MulSmall(secsUp, 1000000, frac)
         IN  [negative |-> Norm(mag) # <<>>, mag |-> mag]

\* lines 207-237: Timestamp and TimestampTz share the arm
EncodeTimestamp(v) ==
    IF ~ValidDate(v.year, v.month, v.day)
       \/ ~ValidTime(v.hour, v.minute, v.second)
       \/ v.fraction >= 2000000000
    THEN EncodePanic
    ELSE LET diff == DurationMicros(DaysSinceEpoch(v.year, v.month, v.day),
                                    SecondOfDay(v.hour, v.minute, v.second),
                                    v.fraction)
         IN  Encoded(I64LeBytes(diff.negative, diff.mag))

\* lines 238-262: the fraction is not read
EncodeTime(v) ==
    IF ~ValidTime(v.hour, v.minute, v.second) THEN EncodePanic
    ELSE Encoded(I64LeBytes(FALSE,
            MulSmall(Wide(SecondOfDay(v.hour, v.minute, v.second)),
                     1000000, 0)))

U16FromLe(b, k) == b[k] + 256 * b[k + 1]

\* mutant of EncodeTimeTz: the time is shifted by 16 bits
EncodeTimeTz_Shift16(v) ==
    IF Len(v.bytes) < 6 THEN EncodePanic
    ELSE LET hour == U16FromLe(v.bytes, 1)
             minute == U16FromLe(v.bytes, 3)
             second == U16FromLe(v.bytes, 5)
             diff == MulSmall(Wide(SecondOfDay(hour, minute, second)),
                              1000000, 0)
             tz_diff_seconds == v.offset + 24 * 60 * 60
             shifted == <<0, 0>> \o diff
             total == AddBig(shifted, Wide(tz_diff_seconds), 0)
         IN  IF ~ValidTime(hour, minute, second) THEN EncodePanic
             ELSE Encoded(I64LeBytes(FALSE, total))

\* lines 263-301: v.bytes is the driver's value, v.offset the local zone's
\* offset from UTC in seconds at the time of the call (Local::now())
EncodeTimeTz(v) ==
    IF Len(v.bytes) < 6 THEN EncodePanic
    ELSE LET hour == U16FromLe(v.bytes, 1)
             minute == U16FromLe(v.bytes, 3)
             second == U16FromLe(v.bytes, 5)
             diff == MulSmall(Wide(SecondOfDay(hour, minute, second)),
                              1000000, 0)
             tz_diff_seconds == v.offset + 24 * 60 * 60
             shifted == <<0, 0, 0>> \o diff
             total == AddBig(shifted, Wide(tz_diff_seconds), 0)
         IN  IF ~ValidTime(hour, minute, second) THEN EncodePanic
             ELSE Encoded(I64LeBytes(FALSE, total))

\* lines 160-177 and 302-318: a u32 length, then the bytes
EncodeLengthPrefixed(bytes) == Encoded(ToLeBytes(Len(bytes), 4) \o bytes)

\* the match of lines 79-381 for a non-null value v of column ct.  A text
\* (Char, Varchar) is its UTF-8 bytes; a Float is the 8 bytes of its
\* IEEE-754 pattern, most significant first.
EncodeValue(ct, v, bld) ==
    CASE ct.data_type = "Integer" -> Encoded(ToLeBytes(v, 8))
      [] ct.data_type = "Interval" -> Encoded(v)
      [] ct.data_type = "Float" -> Encoded(Reverse(v))
      [] ct.data_type = "Char" -> Encoded(v)
      [] ct.data_type = "Varchar" -> EncodeLengthPrefixed(v)
      [] ct.data_type = "Boolean" -> Encoded(<<IF v THEN 1 ELSE 0>>)
      [] ct.data_type = "Date" -> EncodeDate(v)
      [] ct.data_type \in {"Timestamp", "TimestampTz"} -> EncodeTimestamp(v)
      [] ct.data_type = "Time" -> EncodeTime(v)
      [] ct.data_type = "TimeTz" -> EncodeTimeTz(v)
      [] ct.data_type = "Varbinary" -> EncodeLengthPrefixed(v)
      [] ct.data_type = "Binary" -> Encoded(v)
      [] ct.data_type = "Numeric" ->
            EncodeNumeric(v, ct.scale, ct.width, bld)

----------------------------------------------------------------------------
(* The tables and rows extract() is run on.                                *)

Null == [null |-> TRUE]
Some(v) == [null |-> FALSE, v |-> v]

\* the two values a non-null cell of each type is drawn from
Samples(ct) ==
    CASE ct.data_type = "Integer" -> <<1, -2>>
      [] ct.data_type = "Float" ->
            << <<63, 240, 0, 0, 0, 0, 0, 0>>, <<192, 4, 0, 0, 0, 0, 0, 0>> >>
      [] ct.data_type = "Char" -> << <<104, 105>>, <<97>> >>
      [] ct.data_type = "Varchar" -> << <<104, 105>>, <<>> >>
      [] ct.data_type = "Boolean" -> <<TRUE, FALSE>>
      [] ct.data_type = "Date" ->
            << [year |-> 2000, month |-> 1, day |-> 1],
               [year |-> 1999, month |-> 12, day |-> 31] >>
      [] ct.data_type \in {"Timestamp", "TimestampTz"} ->
            << [year |-> 2024, month |-> 2, day |-> 29, hour |-> 12,
                minute |-> 0, second |-> 0, fraction |-> 0],
               [year |-> 1999, month |-> 12, day |-> 31, hour |-> 23,
                minute |-> 59, second |-> 58, fraction |-> 250000000] >>
      [] ct.data_type = "Time" ->
            << [hour |-> 23, minute |-> 59, second |-> 59],
               [hour |-> 0, minute |-> 0, second |-> 0] >>
      [] ct.data_type = "TimeTz" ->
            << [bytes |-> <<1, 0, 2, 0, 3, 0>>, offset |-> -18000],
               [bytes |-> <<23, 0, 59, 0, 59, 0>>, offset |-> 3600] >>
      [] ct.data_type = "Varbinary" -> << <<0, 255>>, <<>> >>
      [] ct.data_type = "Binary" -> << <<1, 2, 3>>, <<0>> >>
      [] ct.data_type = "Interval" -> << <<49, 58, 48, 48>>, <<48>> >>
      [] ct.data_type = "Numeric" -> << <<"1", "2", "3">>, <<"-", "5">> >>

\* which columns of a row are null: every choice for a narrow table, and
\* for a wide one none, all, the first alone and the last alone
NullPatterns(n) ==
    IF n <= 2 THEN [1..n -> BOOLEAN]
    ELSE {[k \in 1..n |-> FALSE], [k \in 1..n |-> TRUE],
          [k \in 1..n |-> k = 1], [k \in 1..n |-> k = n]}

\* the rows the cursor may yield for a table
Rows(cts) ==
    {[k \in 1..Len(cts) |->
        IF np[k] THEN Null ELSE Some(Samples(cts[k])[variant])] :
            np \in NullPatterns(Len(cts)), variant \in 1..2}

Repeat(n, x) == [k \in 1..n |-> x]

\* the tables: (c1 int); (int, varchar); (boolean, numeric(19,2), char(2));
\* eight columns of the remaining types; nine booleans
Schemas ==
    { <<ColumnType("Integer", 8, None, None)>>,
      <<ColumnType("Integer", 8, None, None),
        ColumnType("Varchar", 64, None, None)>>,
      <<ColumnType("Boolean", 1, None, None),
        ColumnType("Numeric", 16, 19, 2),
        ColumnType("Char", 2, None, None)>>,
      <<ColumnType("Float", 8, None, None),
        ColumnType("Date", 8, None, None),
        ColumnType("Timestamp", 8, None, None),
        ColumnType("TimestampTz", 8, None, None),
        ColumnType("Time", 8, None, None),
        ColumnType("TimeTz", 8, None, None),
        ColumnType("Varbinary", 80, None, None),
        ColumnType("Binary", 3, None, None)>>,
      Repeat(8, ColumnType("Boolean", 1, None, None))
        \o <<ColumnType("Interval", 8, None, None)>> }

----------------------------------------------------------------------------
(* extract (lib.rs 32-428).  A write to the output file either takes all   *)
(* of its bytes or returns Err and takes none; once a write has failed     *)
(* (the disk is full, the descriptor is gone) the later ones fail too.     *)
(* The code reads the result of no write.                                  *)

FILE_HEADER == <<78, 65, 84, 73, 86, 69, 10, 255, 13, 10, 0>>

NoFile == [created |-> FALSE, bytes |-> <<>>]

RECURSIVE WriteAll(_, _)
\* the file after the writes ws, each <<kind, bytes>>, in order
WriteAll(file, ws) ==
    IF ws = <<>> THEN file
    ELSE WriteAll([file EXCEPT !.bytes = @ \o Head(ws)[2]], Tail(ws))

\* after the first n of the writes ws were taken: "ok" if that is all of
\* them, "failed" if write n + 1 returned Err
SinkAfter(n, ws) == IF n = Len(ws) THEN "ok" ELSE "failed"

\* how many of the writes ws the sink snk may take before one fails: a
\* failed sink takes none, and write_all of no bytes makes no call that
\* could fail
Taken(snk, ws) ==
    IF snk # "ok" THEN {0}
    ELSE {n \in 0..Len(ws) :
            n < Len(ws) => ~(ws[n + 1][1] = "values" /\ ws[n + 1][2] = <<>>)}

\* columns of the result set of the data query: those the metadata query
\* listed, or, when it listed none, those the table turns out to have
ResultCols(cts) == IF cts = <<>> THEN 1..2 ELSE {Len(cts)}

\* lines 66-67: the magic, then the column definitions
HeaderWrites(column_definitions) ==
    << <<"magic", FILE_HEADER>>, <<"defs", column_definitions>> >>

\* mutant of RowSize: the bitmap is not counted
RowSize_ValuesOnly(bitmap, vals) == SumLen(vals)

\* lines 388-389: row_size; ToLeBytes(row_size, 4) keeps its low 32 bits
RowSize(bitmap, vals) == Len(bitmap) + SumLen(vals)

\* mutant of RowWrites: the bitmap goes out before the size
RowWrites_BitmapFirst(row_size, bitmap, flattened_values) ==
    << <<"bitmap", bitmap>>, <<"size", ToLeBytes(row_size, 4)>>,
       <<"values", flattened_values>> >>

\* lines 416-418: the size, the bitmap, the values
RowWrites(row_size, bitmap, flattened_values) ==
    << <<"size", ToLeBytes(row_size, 4)>>, <<"bitmap", bitmap>>,
       <<"values", flattened_values>> >>

Return(r) ==
    /\ pc' = "done"
    /\ result' = r

\* lines 44-45: the environment or the connection fails
ConnectErr ==
    /\ pc = "start"
    /\ Return("err")
    /\ UNCHANGED <<build, sink, column_types, cols, nulls, values, cursor, col,
                   rows_written, output_file, writes, fetched, call>>

\* line 47, lib.rs 508-511 and 513-518: the metadata statement, query,
\* fetch or get_data fails and get_column_types(..)? returns the error
GetColumnTypesErr ==
    /\ pc = "start"
    /\ Return("err")
    /\ UNCHANGED <<build, sink, column_types, cols, nulls, values, cursor,
                   col, rows_written, output_file, writes, fetched, call>>

\* line 47, lib.rs 512-528: the metadata query yields no row, as NoData
\* (line 528 prints) or as a result set fetch finds empty: Ok(vec![])
GetColumnTypesEmpty ==
    /\ pc = "start"
    /\ column_types' = <<>>
    /\ pc' = "exec"
    /\ UNCHANGED <<build, sink, cols, nulls, values, cursor, col,
                   rows_written, output_file, writes, fetched, result, call>>

\* line 47: get_column_types returns the table's columns
GetColumnTypes ==
    /\ pc = "start"
    /\ column_types' \in Schemas
    /\ pc' = "exec"
    /\ UNCHANGED <<build, sink, cols, nulls, values, cursor, col,
                   rows_written, output_file, writes, fetched, result, call>>

\* lines 60-62: the statement or the data query fails
ExecErr ==
    /\ pc = "exec"
    /\ Return("err")
    /\ UNCHANGED <<build, sink, column_types, cols, nulls, values, cursor, col,
                   rows_written, output_file, writes, fetched, call>>

\* line 63: the query returns no result set
ExecNoData ==
    /\ pc = "exec"
    /\ Return("ok")
    /\ UNCHANGED <<build, sink, column_types, cols, nulls, values, cursor, col,
                   rows_written, output_file, writes, fetched, call>>

\* line 65: File::create fails
FileCreateErr ==
    /\ pc = "exec"
    /\ Return("err")
    /\ UNCHANGED <<build, sink, column_types, cols, nulls, values, cursor, col,
                   rows_written, output_file, writes, fetched, call>>

\* lines 64-73: the file is created, the two header writes are made and
\* their results dropped, and the row buffers are set up
ExecData ==
    /\ pc = "exec"
    /\ LET ws == HeaderWrites(generate_column_definitions(column_types))
       IN  \E n \in Taken(sink, ws) :
              /\ output_file' = WriteAll([created |-> TRUE, bytes |-> <<>>],
                                         SubSeq(ws, 1, n))
              /\ sink' = SinkAfter(n, ws)
              /\ writes' = ws
    /\ cols' \in ResultCols(column_types)
    /\ nulls' = Repeat(cols', FALSE)
    /\ values' = <<>>
    /\ rows_written' = 0
    /\ pc' = "fetch"
    /\ UNCHANGED <<build, column_types, cursor, col, fetched, result, call>>

\* line 69 or 75: num_result_cols or fetch fails
FetchErr ==
    /\ pc = "fetch"
    /\ Return("err")
    /\ UNCHANGED <<build, sink, column_types, cols, nulls, values, cursor, col,
                   rows_written, output_file, writes, fetched, call>>

\* line 75: the cursor moves to the next row
FetchRow ==
    /\ pc = "fetch"
    /\ Len(fetched) < MaxRows
    /\ cursor' \in IF column_types = <<>> THEN {Repeat(cols, Null)}
                   ELSE Rows(column_types)
    /\ fetched' = Append(fetched, cursor')
    /\ col' = 1
    /\ pc' = "column"
    /\ UNCHANGED <<build, sink, column_types, cols, nulls, values, rows_written,
                   output_file, writes, result, call>>

\* line 75: no more rows; line 427
FetchNone ==
    /\ pc = "fetch"
    /\ Return("ok")
    /\ UNCHANGED <<build, sink, column_types, cols, nulls, values, cursor, col,
                   rows_written, output_file, writes, fetched, call>>

\* the end of one pass of the loop of line 76
NextColumn ==
    /\ col' = col + 1
    /\ pc' = IF col + 1 > cols THEN "write" ELSE "column"

\* line 77: column_types[(i - 1) as usize] past the end of column_types
ColumnTypeIndexPanic ==
    /\ pc = "column"
    /\ col > Len(column_types)
    /\ Return("panic")
    /\ UNCHANGED <<build, sink, column_types, cols, nulls, values, cursor,
                   col, rows_written, output_file, writes, fetched, call>>

\* cursor.get_data fails in any arm
GetDataErr ==
    /\ pc = "column"
    /\ col <= Len(column_types)
    /\ Return("err")
    /\ UNCHANGED <<build, sink, column_types, cols, nulls, values, cursor, col,
                   rows_written, output_file, writes, fetched, call>>

\* the None branch of every arm: the flag is set and an empty value pushed
GetDataNull ==
    /\ pc = "column"
    /\ col <= Len(column_types)
    /\ cursor[col].null
    /\ nulls' = [nulls EXCEPT ![col] = TRUE]
    /\ values' = Append(values, <<>>)
    /\ NextColumn
    /\ UNCHANGED <<build, sink, column_types, cols, cursor, rows_written,
                   output_file, writes, fetched, result, call>>

\* mutant of GetDataSome: the cell goes to the file as soon as it is encoded
GetDataSome_WriteThrough ==
    /\ pc = "column"
    /\ col <= Len(column_types)
    /\ ~cursor[col].null
    /\ LET byte_val == EncodeValue(column_types[col], cursor[col].v, build)
       IN  IF byte_val.kind = "ok"
           THEN /\ values' = Append(values, byte_val.bytes)
                /\ output_file' =
                      [output_file EXCEPT !.bytes = @ \o byte_val.bytes]
                /\ NextColumn
                /\ UNCHANGED result
           ELSE /\ Return(byte_val.kind)
                /\ UNCHANGED <<values, col, output_file>>
    /\ UNCHANGED <<build, sink, column_types, cols, nulls, cursor,
                   rows_written, writes, fetched, call>>

\* the Some branch of every arm, and line 383
GetDataSome ==
    /\ pc = "column"
    /\ col <= Len(column_types)
    /\ ~cursor[col].null
    /\ LET byte_val == EncodeValue(column_types[col], cursor[col].v, build)
       IN  IF byte_val.kind = "ok"
           THEN /\ values' = Append(values, byte_val.bytes)
                /\ NextColumn
                /\ UNCHANGED result
           ELSE /\ Return(byte_val.kind)
                /\ UNCHANGED <<values, col>>
    /\ UNCHANGED <<build, sink, column_types, cols, nulls, cursor, rows_written,
                   output_file, writes, fetched, call>>

\* lines 386-422: the bitmap, the size, the three writes with their
\* results dropped, and the reset of values; nulls is left as it is
WriteRow ==
    /\ pc = "write"
    /\ LET bitmap == create_nulls_bitmap(cols, nulls)
           row_size == RowSize(bitmap, values)
           flattened_values == Flatten(values)
           ws == RowWrites(row_size, bitmap, flattened_values)
       IN  \E n \in Taken(sink, ws) :
              /\ output_file' = WriteAll(output_file, SubSeq(ws, 1, n))
              /\ sink' = IF sink = "ok" THEN SinkAfter(n, ws) ELSE sink
              /\ writes' = writes \o ws
    /\ values' = <<>>
    /\ rows_written' = rows_written + 1
    /\ pc' = "fetch"
    /\ UNCHANGED <<build, column_types, cols, nulls, cursor, col, fetched,
                   result, call>>

Init ==
    /\ pc = "start"
    /\ build \in {"debug", "release"}
    /\ column_types = <<>>
    /\ cols = 0
    /\ nulls = <<>>
    /\ values = <<>>
    /\ cursor = <<>>
    /\ col = 0
    /\ rows_written = 0
    /\ output_file = NoFile
    /\ sink = "ok"
    /\ writes = <<>>
    /\ fetched = <<>>
    /\ result = "none"
    /\ call = [fn |-> "none", done |-> FALSE]

Next ==
    \/ ConnectErr
    \/ GetColumnTypesErr
    \/ GetColumnTypesEmpty
    \/ GetColumnTypes
    \/ ExecErr
    \/ ExecNoData
    \/ FileCreateErr
    \/ ExecData
    \/ FetchErr
    \/ FetchRow
    \/ FetchNone
    \/ ColumnTypeIndexPanic
    \/ GetDataErr
    \/ GetDataNull
    \/ GetDataSome
    \/ WriteRow

Spec == Init /\ [][Next]_vars

----------------------------------------------------------------------------
(* Pure functions under check: `call` holds the arguments, then the        *)
(* result.  extract() itself is idle meanwhile.                            *)

Idle ==
    /\ pc = "idle"
    /\ column_types = <<>>
    /\ cols = 0
    /\ nulls = <<>>
    /\ values = <<>>
    /\ cursor = <<>>
    /\ col = 0
    /\ rows_written = 0
    /\ output_file = NoFile
    /\ sink = "ok"
    /\ writes = <<>>
    /\ fetched = <<>>
    /\ result = "none"

\* null vectors of 0..MaxNulls flags
NullVectors == UNION {[1..n -> BOOLEAN] : n \in 0..MaxNulls}

InitBitmap ==
    /\ Idle
    /\ build = "debug"
    /\ call \in {[fn |-> "create_nulls_bitmap", nulls |-> v, done |-> FALSE,
                  ret |-> <<>>] : v \in NullVectors}

CallCreateNullsBitmap ==
    /\ call.fn = "create_nulls_bitmap"
    /\ ~call.done
    /\ call' = [call EXCEPT !.done = TRUE,
                   !.ret = create_nulls_bitmap(Len(call.nulls), call.nulls)]
    /\ UNCHANGED <<extractVars, build>>

SpecBitmap == InitBitmap /\ [][CallCreateNullsBitmap]_vars

\* the columns schemas are drawn from: every type at two declared widths,
\* Numeric at the precisions around the 19-digit limb boundaries
DefColumns ==
    {ColumnType(t, w, None, None) :
        t \in SqlDataTypes \ {"Numeric"}, w \in {8, 300}}
    \cup {ColumnType("Numeric", 16, p, None) : p \in {None, 0, 18, 19, 38, 1024}}

\* schemas of 0..MaxDefCols columns
DefSchemas == UNION {[1..n -> DefColumns] : n \in 0..MaxDefCols}

InitColDefs ==
    /\ Idle
    /\ build = "debug"
    /\ call \in {[fn |-> "generate_column_definitions", cts |-> c,
                  done |-> FALSE, ret |-> <<>>] : c \in DefSchemas}

CallGenerateColumnDefinitions ==
    /\ call.fn = "generate_column_definitions"
    /\ ~call.done
    /\ call' = [call EXCEPT !.done = TRUE,
                   !.ret = generate_column_definitions(call.cts)]
    /\ UNCHANGED <<extractVars, build>>

SpecColDefs == InitColDefs /\ [][CallGenerateColumnDefinitions]_vars

\* Numeric texts: zero, small values, values whose low byte is zero, the
\* edges of 64 and 128 bits, negatives, and texts that are no integer
NumericTexts ==
    {<<"0">>,
     <<"1">>,
     <<"1", "2", "3">>,
     <<"2", "5", "5">>,
     <<"2", "5", "6">>,
     <<"6", "5", "5", "3", "6">>,
     <<"1", "2", "3", "0", "0">>,
     <<"1", "8", "4", "4", "6", "7", "4", "4", "0", "7", "3", "7", "0", "9", "5", "5", "1", "6", "1", "6">>,
     <<"3", "4", "0", "2", "8", "2", "3", "6", "6", "9", "2", "0", "9", "3", "8", "4", "6", "3", "4", "6", "3", "3", "7", "4", "6", "0", "7", "4", "3", "1", "7", "6", "8", "2", "1", "1", "4", "5", "5">>,
     <<"3", "4", "0", "2", "8", "2", "3", "6", "6", "9", "2", "0", "9", "3", "8", "4", "6", "3", "4", "6", "3", "3", "7", "4", "6", "0", "7", "4", "3", "1", "7", "6", "8", "2", "1", "1", "4", "5", "6">>,
     <<"-", "5">>,
     <<"-", "2", "5", "6">>,
     <<>>,
     <<"a", "b", "c">>,
     <<"+", "7">>,
     <<"1", ".", "5">>}

NumericScales == {None, 0, 2, 8, 38, 39}

NumericWidths == {8, 12, 16, 24}

InitNumeric ==
    /\ Idle
    /\ build \in {"debug", "release"}
    /\ call \in {[fn |-> "numeric", text |-> t, scale |-> s, width |-> w,
                  done |-> FALSE, ret |-> NumericErr] :
                    t \in NumericTexts, s \in NumericScales,
                    w \in NumericWidths}

CallEncodeNumeric ==
    /\ call.fn = "numeric"
    /\ ~call.done
    /\ call' = [call EXCEPT !.done = TRUE,
                   !.ret = EncodeNumeric(call.text, call.scale, call.width,
                                         build)]
    /\ UNCHANGED <<extractVars, build>>

SpecNumeric == InitNumeric /\ [][CallEncodeNumeric]_vars

\* TimeTz values as the driver gives them: three u16, little-endian
TimeTzHours == {0, 1, 12, 23, 24}
TimeTzMinutes == {0, 30, 59}
TimeTzSeconds == {0, 59}

\* offsets of the local zone from UTC, in seconds, between -24h and +24h
LocalOffsets == {-86399, -50400, -18000, -1, 0, 1, 3600, 50400, 86399}

InitTimeTz ==
    /\ Idle
    /\ build = "debug"
    /\ call \in {[fn |-> "timetz",
                  value |-> ToLeBytes(h, 2) \o ToLeBytes(mi, 2)
                                \o ToLeBytes(sec, 2),
                  offset |-> off, done |-> FALSE, ret |-> EncodePanic] :
                    h \in TimeTzHours, mi \in TimeTzMinutes,
                    sec \in TimeTzSeconds, off \in LocalOffsets}

CallEncodeTimeTz ==
    /\ call.fn = "timetz"
    /\ ~call.done
    /\ call' = [call EXCEPT !.done = TRUE,
                   !.ret = EncodeTimeTz([bytes |-> call.value,
                                         offset |-> call.offset])]
    /\ UNCHANGED <<extractVars, build>>

SpecTimeTz == InitTimeTz /\ [][CallEncodeTimeTz]_vars

----------------------------------------------------------------------------
(* main (main.rs 9-174).  The command line is what getopts makes of it;    *)
(* extract is what it returns.  The process status is 0 when main returns  *)
(* and 101 when it panics.                                                 *)

\* a return from main: fn main() has no status to give but success
MainReturns(diag, extracted) ==
    [exit |-> 0, stderr |-> diag, extracted |-> extracted]

\* a panic inside extract unwinds through main
MainPanics == [exit |-> 101, stderr |-> TRUE, extracted |-> TRUE]

\* main.rs 47-174, in the order of the code
main(a) ==
    IF ~a.parse_ok THEN MainReturns(TRUE, FALSE)                \* 47-55
    ELSE IF a.help \/ ~(a.table \/ a.output \/ a.database)
         THEN MainReturns(FALSE, FALSE)                         \* 59-68
    ELSE IF ~a.port_ok THEN MainReturns(TRUE, FALSE)            \* 82-92
    ELSE IF ~a.database THEN MainReturns(TRUE, FALSE)           \* 94-101
    ELSE IF ~a.output THEN MainReturns(TRUE, FALSE)             \* 115-122
    ELSE IF ~a.table THEN MainReturns(TRUE, FALSE)              \* 124-131
    ELSE IF ~a.limit_ok THEN MainReturns(TRUE, FALSE)           \* 133-143
    ELSE IF a.exists /\ ~a.force THEN MainReturns(TRUE, FALSE)  \* 147-151
    ELSE CASE a.extract = "ok" -> MainReturns(FALSE, TRUE)      \* 168
           [] a.extract = "err" -> MainReturns(TRUE, TRUE)      \* 169-172
           [] a.extract = "panic" -> MainPanics

\* command lines: whether getopts parses it, which options it holds,
\* whether port and limit parse, whether the output file exists, and what
\* extract returns if it is reached
CommandLines ==
    [parse_ok : BOOLEAN, help : BOOLEAN, table : BOOLEAN, output : BOOLEAN,
     database : BOOLEAN, port_ok : BOOLEAN, limit_ok : BOOLEAN,
     exists : BOOLEAN, force : BOOLEAN, extract : {"ok", "err", "panic"}]

InitMain ==
    /\ Idle
    /\ build = "debug"
    /\ call \in {[fn |-> "main", args |-> a, done |-> FALSE,
                  ret |-> MainReturns(FALSE, FALSE)] : a \in CommandLines}

CallMain ==
    /\ call.fn = "main"
    /\ ~call.done
    /\ call' = [call EXCEPT !.done = TRUE, !.ret = main(call.args)]
    /\ UNCHANGED <<extractVars, build>>

SpecMain == InitMain /\ [][CallMain]_vars

----------------------------------------------------------------------------
(* SqlDataType::from_string (sql_data_type.rs 25-49).  A string is the     *)
(* sequence of its characters.                                             *)

UpperLetters ==
    <<"A", "B", "C", "D", "E", "F", "G", "H", "I", "J", "K", "L", "M", "N", "O", "P", "Q", "R", "S", "T", "U", "V", "W", "X", "Y", "Z">>

LowerLetters ==
    <<"a", "b", "c", "d", "e", "f", "g", "h", "i", "j", "k", "l", "m", "n", "o", "p", "q", "r", "s", "t", "u", "v", "w", "x", "y", "z">>

\* char::to_lowercase on the characters the model uses
LowerChar(c) ==
    IF \E k \in 1..Len(UpperLetters) : UpperLetters[k] = c
    THEN LowerLetters[CHOOSE k \in 1..Len(UpperLetters) : UpperLetters[k] = c]
    ELSE c

\* str::to_lowercase
to_lowercase(str) == [k \in 1..Len(str) |-> LowerChar(str[k])]

RECURSIVE DotRunEnd(_, _)
\* `.+` from position k on: the last position of the run of characters
\* other than a line feed that starts at k (k - 1 if there is none)
DotRunEnd(str, k) ==
    IF k > Len(str) \/ str[k] = "\n" THEN k - 1
    ELSE DotRunEnd(str, k + 1)

RECURSIVE BackToParen(_, _, _)
\* `.+` gives characters back from position e down to lo until a ")"
\* follows it: the position of that ")", or 0
BackToParen(str, lo, e) ==
    IF e < lo THEN 0
    ELSE IF str[e] = ")" THEN e
    ELSE BackToParen(str, lo, e - 1)

RECURSIVE ForwardToParen(_, _, _)
\* the nearest ")" in lo..e, or 0
ForwardToParen(str, lo, e) ==
    IF lo > e THEN 0
    ELSE IF str[lo] = ")" THEN lo
    ELSE ForwardToParen(str, lo + 1, e)

\* mutant of ParenMatchEnd: `.+?`, the nearest closing parenthesis
ParenMatchEnd_Nearest(str, i) ==
    IF str[i] # "(" THEN 0
    ELSE ForwardToParen(str, i + 2, DotRunEnd(str, i + 1))

\* a match of \(.+\) starting at position i: the position of its last
\* character, or 0 if there is no match there.  `.+` is greedy and takes
\* at least one character.
ParenMatchEnd(str, i) ==
    IF str[i] # "(" THEN 0
    ELSE BackToParen(str, i + 2, DotRunEnd(str, i + 1))

RECURSIVE FirstParenMatch(_, _)
\* the leftmost match of PAREN_REGEX at or after position i: <<from, to>>,
\* or <<0, 0>>
FirstParenMatch(str, i) ==
    IF i > Len(str) THEN <<0, 0>>
    ELSE IF ParenMatchEnd(str, i) # 0 THEN <<i, ParenMatchEnd(str, i)>>
    ELSE FirstParenMatch(str, i + 1)

\* PAREN_REGEX.replace(string, ""): the first match only
no_parens(str) ==
    LET m == FirstParenMatch(str, 1)
    IN  IF m[1] = 0 THEN str
        ELSE SubSeq(str, 1, m[1] - 1) \o SubSeq(str, m[2] + 1, Len(str))

\* the arms of the match, lines 33-46
TypeNames ==
    {<<<<"i", "n", "t">>, "Integer">>,
       <<<<"f", "l", "o", "a", "t">>, "Float">>,
       <<<<"c", "h", "a", "r">>, "Char">>,
       <<<<"v", "a", "r", "c", "h", "a", "r">>, "Varchar">>,
       <<<<"b", "o", "o", "l", "e", "a", "n">>, "Boolean">>,
       <<<<"d", "a", "t", "e">>, "Date">>,
       <<<<"t", "i", "m", "e", "s", "t", "a", "m", "p">>, "Timestamp">>,
       <<<<"t", "i", "m", "e", "s", "t", "a", "m", "p", "t", "z">>, "TimestampTz">>,
       <<<<"t", "i", "m", "e">>, "Time">>,
       <<<<"t", "i", "m", "e", "t", "z">>, "TimeTz">>,
       <<<<"v", "a", "r", "b", "i", "n", "a", "r", "y">>, "Varbinary">>,
       <<<<"b", "i", "n", "a", "r", "y">>, "Binary">>,
       <<<<"n", "u", "m", "e", "r", "i", "c">>, "Numeric">>,
       <<<<"i", "n", "t", "e", "r", "v", "a", "l">>, "Interval">>}

\* lines 32-47: the tag, or "panic" for panic!("unknown data type")
from_string(str) ==
    LET name == to_lowercase(no_parens(str))
    IN  IF \E tn \in TypeNames : tn[1] = name
        THEN (CHOOSE tn \in TypeNames : tn[1] = name)[2]
        ELSE "panic"

\* what the data_type column may hold: a name ...
TypeNameTexts ==
    {<<"i", "n", "t">>,
     <<"f", "l", "o", "a", "t">>,
     <<"c", "h", "a", "r">>,
     <<"v", "a", "r", "c", "h", "a", "r">>,
     <<"b", "o", "o", "l", "e", "a", "n">>,
     <<"d", "a", "t", "e">>,
     <<"t", "i", "m", "e", "s", "t", "a", "m", "p">>,
     <<"t", "i", "m", "e", "s", "t", "a", "m", "p", "t", "z">>,
     <<"t", "i", "m", "e">>,
     <<"t", "i", "m", "e", "t", "z">>,
     <<"v", "a", "r", "b", "i", "n", "a", "r", "y">>,
     <<"b", "i", "n", "a", "r", "y">>,
     <<"n", "u", "m", "e", "r", "i", "c">>,
     <<"i", "n", "t", "e", "r", "v", "a", "l">>,
     <<"V", "A", "R", "C", "H", "A", "R">>,
     <<"N", "u", "m", "e", "r", "i", "c">>,
     <<"T", "i", "m", "e", "s", "t", "a", "m", "p", "T", "z">>,
     <<"i", "n", "t", "e", "g", "e", "r">>,
     <<"t", "e", "x", "t">>,
     <<>>}

\* ... followed by what stands after it
TypeSuffixTexts ==
    {<<>>,
     <<"(", "3", "8", ",", "1", "0", ")">>,
     <<"(", "6", "4", ")">>,
     <<"(", ")">>,
     <<"(", "1", ")", "(", "2", ")">>,
     <<"(", "1", ")", " ", "(", "2", ")">>,
     <<"(", "(", "1", ")", ")">>,
     <<"(", "1">>,
     <<")">>,
     <<"(", "\n", ")">>,
     <<"(", "1", "\n", ")", "(", "2", ")">>,
     <<"(", "1", ")", "x">>,
     <<" ">>,
     <<"(", "x", ")", "(", "y", ")", "(", "z", ")">>}

TypeTexts == {n \o x : n \in TypeNameTexts, x \in TypeSuffixTexts}
                \cup {<<"(", "x", ")">> \o n : n \in TypeNameTexts}

InitFromString ==
    /\ Idle
    /\ build = "debug"
    /\ call \in {[fn |-> "from_string", string |-> t, done |-> FALSE,
                  ret |-> "none"] : t \in TypeTexts}

CallFromString ==
    /\ call.fn = "from_string"
    /\ ~call.done
    /\ call' = [call EXCEPT !.done = TRUE, !.ret = from_string(call.string)]
    /\ UNCHANGED <<extractVars, build>>

SpecFromString == InitFromString /\ [][CallFromString]_vars

----------------------------------------------------------------------------
(* Claims about the run of extract(), under Spec.                          *)

\* the encoded non-null cells of fetched row r, in column order
OwnValues(r) ==
    Flatten([c \in 1..Len(fetched[r]) |->
               IF fetched[r][c].null THEN <<>>
               ELSE EncodeValue(column_types[c], fetched[r][c].v,
                                build).bytes])

\* the u32 at byte offset off (from 0) of bytes, for values below 2^24
PrefixAt(bytes, off) ==
    bytes[off + 1] + 256 * bytes[off + 2] + 65536 * bytes[off + 3]

RECURSIVE RowStart(_, _)
\* the offset of the size prefix of row r (from 1) as the file itself
\* tells it: past the magic and the descriptor block, then past each
\* earlier row by its own prefix
RowStart(bytes, r) ==
    IF r = 1 THEN Len(FILE_HEADER) + 4 + PrefixAt(bytes, Len(FILE_HEADER))
    ELSE LET prev == RowStart(bytes, r - 1)
         IN  prev + 4 + PrefixAt(bytes, prev)

\* C1: for every column c of every row, the null flag used for that row's
\* bitmap is true exactly when the cursor returned null for column c in
\* that same row (and then the cell contributes zero bytes); a null of an
\* earlier row never leaves the flag set for a later row.
C1_NullFlagsAreThisRowsNulls ==
    pc = "write" =>
        \A c \in 1..cols :
            /\ nulls[c] = cursor[c].null
            /\ cursor[c].null => values[c] = <<>>

\* C4: for every row written, the 4-byte little-endian size prefix equals
\* the length of that row's bitmap plus the summed lengths of that row's
\* own encoded non-null values, which is exactly the number of bytes
\* written for the row after the prefix.  Read back from the file of a
\* run whose writes were all taken.
C4_RowPrefixIsRowPayloadLength ==
    (output_file.created /\ sink = "ok") =>
        /\ \A r \in 1..rows_written :
              LET off == RowStart(output_file.bytes, r)
                  bitmap == writes[3 * r + 1][2]
                  payload == bitmap \o OwnValues(r)
              IN  /\ output_file.bytes[off + 4] = 0
                  /\ PrefixAt(output_file.bytes, off) = Len(payload)
                  /\ SubSeq(output_file.bytes, off + 5, off + 4 + Len(payload))
                        = payload
        /\ RowStart(output_file.bytes, rows_written + 1)
              = Len(output_file.bytes)

C4_Witness ==
    /\ pc = "done"
    /\ result = "ok"
    /\ sink = "ok"
    /\ rows_written = 2
    /\ cols = 8
    /\ ~fetched[1][1].null
    /\ fetched[2][1].null

RowWriteKinds == <<"size", "bitmap", "values">>

\* C7: in every run that writes to the output file, the 11-byte magic and
\* the column descriptor block are written exactly once and before any row
\* byte; row records then follow in cursor order, each as size prefix,
\* then bitmap, then values; and nothing is written after the last row's
\* values.  The writes are the calls made, in order; the file holds
\* exactly their bytes when all of them were taken.  What the writes
\* carried is compared where the row loop stands between two rows or has
\* ended: inside a row no write is made.
C7_HeaderOnceThenRowsInOrder ==
    IF ~output_file.created
    THEN writes = <<>> /\ output_file.bytes = <<>>
    ELSE /\ Len(writes) = 2 + 3 * rows_written
         /\ writes[1] = <<"magic", FILE_HEADER>>
         /\ \A k \in 3..Len(writes) : writes[k][1] = RowWriteKinds[(k % 3) + 1]
         /\ pc \in {"fetch", "done"} =>
              /\ writes[2]
                    = <<"defs", generate_column_definitions(column_types)>>
              /\ \A r \in 1..rows_written :
                    writes[3 * r + 2][2] = OwnValues(r)
         /\ sink = "ok" =>
                output_file.bytes
                    = Flatten([k \in 1..Len(writes) |-> writes[k][2]])

C7_Witness ==
    /\ pc = "done"
    /\ result = "ok"
    /\ sink = "ok"
    /\ rows_written = 2
    /\ Len(writes) = 8
    /\ Len(column_types) = 2

\* C11: when the metadata query yields no rows, get_column_types, and
\* hence extract, returns the TableNotFound error and the export goes no
\* further: the data query is not run and no output file is created or
\* written.  (An error return is "err"; the code builds no TableNotFound
\* value anywhere.)
C11_NoColumnsIsTableNotFound ==
    (pc # "start" /\ column_types = <<>>) =>
        /\ pc = "done"
        /\ result = "err"
        /\ ~output_file.created
        /\ writes = <<>>

\* C12: if any write to the output file fails, extract returns an error
\* to its caller instead of Ok and writes no further rows: the step that
\* made the failed write ends the run with the error.
C12_WriteFailureIsReturned ==
    sink = "failed" => (pc = "done" /\ result = "err")

\* C16: for every column whose header on-wire width is not 0xFFFFFFFF,
\* every non-null value encoded for that column has exactly as many bytes
\* as the on-wire width written for it in the header.
C16_ValueLengthIsOnWireWidth ==
    pc \in {"column", "write"} =>
        \A c \in 1..Len(values) :
            (~cursor[c].null /\ OnWireWidth(column_types[c]) # -1)
                => Len(values[c]) = OnWireWidth(column_types[c])

\* a fetch or an encoding has failed, in a run whose writes were all taken
EncodingFailed ==
    /\ pc = "done"
    /\ result \in {"err", "panic"}
    /\ output_file.created
    /\ sink = "ok"

\* the failure came inside a row: the column loop had not finished
FailedInsideRow == col \in 1..cols

RECURSIVE WholeRows(_, _, _, _)
\* bytes from offset off (from 0) on are exactly the records of the fetched
\* rows r..last: a prefix, a bitmap of cols / 8 bytes, the row's values
WholeRows(bytes, off, r, last) ==
    IF r > last THEN off = Len(bytes)
    ELSE LET vals == OwnValues(r)
             payload == (cols \div 8) + Len(vals)
         IN  /\ Len(bytes) >= off + 4 + payload
             /\ SubSeq(bytes, off + 1, off + 4) = ToLeBytes(payload, 4)
             /\ SubSeq(bytes, off + 5 + (cols \div 8), off + 4 + payload)
                   = vals
             /\ WholeRows(bytes, off + 4 + payload, r + 1, last)

\* C17: if fetching or encoding any column of row r fails (a driver error
\* or an unparseable Numeric text), extract returns that error, no byte of
\* row r or of any later row is written, and every row before r is
\* already written in full: the file is the header followed by complete
\* row records.
C17_FailedRowLeavesWholeRows ==
    EncodingFailed =>
        LET header == FILE_HEADER \o generate_column_definitions(column_types)
            before == IF FailedInsideRow THEN Len(fetched) - 1
                      ELSE Len(fetched)
        IN  /\ rows_written = before
            /\ Len(output_file.bytes) >= Len(header)
            /\ SubSeq(output_file.bytes, 1, Len(header)) = header
            /\ WholeRows(output_file.bytes, Len(header), 1, before)

C17_Witness ==
    /\ EncodingFailed
    /\ result = "err"
    /\ rows_written = 1
    /\ Len(fetched) = 2
    /\ col = 2
    /\ column_types[2].data_type = "Numeric"
    /\ ~cursor[2].null
    /\ cursor[2].v = <<"-", "5">>

----------------------------------------------------------------------------
(* Claims about create_nulls_bitmap, under SpecBitmap.                     *)

BitmapCalled == call.fn = "create_nulls_bitmap" /\ call.done

\* C2: for every column count C >= 1 and every null vector of length C,
\* create_nulls_bitmap returns exactly ceil(C/8) bytes (a partial trailing
\* chunk yields its own byte).
C2_BitmapLengthIsCeil ==
    (BitmapCalled /\ Len(call.nulls) >= 1)
        => Len(call.ret) = (Len(call.nulls) + 7) \div 8

\* C3: for every column index k < C, bit 7 - (k mod 8) of bitmap byte
\* floor(k/8) is 1 exactly when nulls[k] is true, and every bit that
\* corresponds to no column is 0.
C3_BitmapBitsMatchNulls ==
    BitmapCalled =>
        /\ \A k \in 0..(Len(call.nulls) - 1) :
              /\ k \div 8 + 1 <= Len(call.ret)
              /\ Bit(call.ret[k \div 8 + 1], 7 - (k % 8)) = call.nulls[k + 1]
        /\ \A m \in 1..Len(call.ret) : \A b \in 0..7 :
              (8 * (m - 1) + (7 - b) >= Len(call.nulls))
                  => ~Bit(call.ret[m], b)

----------------------------------------------------------------------------
(* Claims about generate_column_definitions, under SpecColDefs.            *)

ColDefsCalled == call.fn = "generate_column_definitions" /\ call.done

\* the u32 that four little-endian bytes hold, for values below 2^24
U32Is(field, n) ==
    /\ Len(field) = 4
    /\ field[4] = 0
    /\ field[1] + 256 * field[2] + 65536 * field[3] = n

\* C5 as stated: the u32 little-endian block length at the start of the
\* column descriptor block equals 8 + 4C.
C5_BlockLengthIs8Plus4C ==
    ColDefsCalled
        => U32Is(SubSeq(call.ret, 1, 4), 8 + 4 * Len(call.cts))

\* C5 as amended: the block length equals 5 + 4C, the number of bytes that
\* follow it (version 2, filler 1, column count 2, and 4 per column).
C5_BlockLengthIs5Plus4C ==
    ColDefsCalled =>
        /\ U32Is(SubSeq(call.ret, 1, 4), 5 + 4 * Len(call.cts))
        /\ Len(call.ret) - 4 = 5 + 4 * Len(call.cts)

C5_Witness == ColDefsCalled /\ Len(call.cts) = 2

\* the width field the descriptor block is said to hold for a column
ClaimedWidthField(ct, field) ==
    CASE ct.data_type \in {"Integer", "Char", "Binary"} -> U32Is(field, ct.width)
      [] ct.data_type \in {"Varchar", "Varbinary"} ->
            field = <<255, 255, 255, 255>>
      [] ct.data_type = "Boolean" -> U32Is(field, 1)
      [] ct.data_type = "Numeric" ->
            IF ct.precision = None THEN U32Is(field, 0)
            ELSE U32Is(field, ((ct.precision \div 19) + 1) * 8)
      [] OTHER -> U32Is(field, 8)

\* C6: the descriptor block holds version 1, filler 0, num_columns = C,
\* then for column i in order a u32 on-wire width: the declared width for
\* Integer, Char and Binary; 0xFFFFFFFF for Varchar and Varbinary; 1 for
\* Boolean; 8 for Float and the temporal types; ((precision / 19) + 1) * 8
\* for Numeric with a precision, and 0 for Numeric without one.
C6_DescriptorBlockLayout ==
    ColDefsCalled =>
        /\ Len(call.ret) = 9 + 4 * Len(call.cts)
        /\ SubSeq(call.ret, 5, 6) = <<1, 0>>
        /\ call.ret[7] = 0
        /\ call.ret[8] + 256 * call.ret[9] = Len(call.cts)
        /\ \A i \in 1..Len(call.cts) :
              ClaimedWidthField(call.cts[i],
                                SubSeq(call.ret, 4 * i + 6, 4 * i + 9))

C6_Witness ==
    /\ ColDefsCalled
    /\ Len(call.cts) = 2
    /\ call.cts[1].data_type = "Numeric" /\ call.cts[1].precision = 19
    /\ call.cts[2].data_type = "Varchar"

----------------------------------------------------------------------------
(* Claims about the Numeric arm, under SpecNumeric.                        *)

NumericCalled == call.fn = "numeric" /\ call.done

AllDigits(text) == text # <<>> /\ \A k \in 1..Len(text) : IsDigit(text[k])

RECURSIVE DecimalValue(_, _)
\* the natural number a digit text denotes, of any size
DecimalValue(text, acc) ==
    IF text = <<>> THEN acc
    ELSE LET next == MulSmall(acc, 10, DigitValue(Head(text)))
         IN  IF Len(next) >= 0 THEN DecimalValue(Tail(text), next) ELSE <<>>

RECURSIVE TimesPow10(_, _)
TimesPow10(a, s) ==
    IF s = 0 THEN a
    ELSE LET next == MulSmall(a, 10, 0)
         IN  IF Len(next) >= 0 THEN TimesPow10(next, s - 1) ELSE <<>>

ScaleOf(s) == IF s = None THEN 0 ELSE s

\* n * 10^s for a digit text n
ScaledValue(text, s) == TimesPow10(DecimalValue(text, <<>>), ScaleOf(s))

\* the w-byte big-endian representation of a, with the byte order reversed
\* inside each consecutive 8-byte chunk
ChunkReversedBigEndian(a, w) ==
    LET le == Wrap(a, w)
    IN  [k \in 1..w |-> le[w - 8 * ((k - 1) \div 8) - 7 + ((k - 1) % 8)]]

\* C8: for every non-negative Numeric text n, scale s and width W (a
\* multiple of 8) with n * 10^s < 2^(8W), the encoder succeeds and emits
\* the W-byte big-endian representation of n * 10^s, byte-reversed inside
\* each 8-byte chunk.  Stated where the claim asks least: W at least 8
\* and a scale whose power of ten fits 128 bits.
C8_NumericEncodesScaledValue ==
    (/\ NumericCalled
     /\ AllDigits(call.text)
     /\ call.width % 8 = 0
     /\ call.width >= 8
     /\ ScaleOf(call.scale) <= 38
     /\ Fits(ScaledValue(call.text, call.scale), call.width))
        => /\ call.ret.kind = "ok"
           /\ call.ret.bytes
                = ChunkReversedBigEndian(ScaledValue(call.text, call.scale),
                                         call.width)

IsNegativeInteger(text) ==
    Len(text) >= 2 /\ Head(text) = "-" /\ AllDigits(Tail(text))

\* C10: a Numeric text denoting a negative integer n is encoded rather
\* than rejected: the first W - M pad bytes of the W-byte buffer (M the
\* significant bytes of the magnitude) are complemented, so the pad region
\* of a negative value is 0xFF bytes.
C10_NegativeNumericIsEncoded ==
    (/\ NumericCalled
     /\ IsNegativeInteger(call.text)
     /\ call.width % 8 = 0
     /\ Fits(ScaledValue(Tail(call.text), call.scale), call.width))
        => /\ call.ret.kind = "ok"
           /\ LET m == Len(Norm(ScaledValue(Tail(call.text), call.scale)))
                  buffer == ReverseChunks(call.ret.bytes, 0,
                                          Len(call.ret.bytes) \div 8)
              IN  /\ Len(buffer) = call.width
                  /\ \A k \in 1..(call.width - m) : buffer[k] = 255

----------------------------------------------------------------------------
(* Claims about main, under SpecMain.                                      *)

MainCalled == call.fn = "main" /\ call.done

\* the failure paths the claim lists, as the command line shows them
MainFailurePath(a) ==
    \/ ~a.parse_ok
    \/ /\ ~a.help
       /\ \/ ~(a.table /\ a.output /\ a.database)
          \/ ~a.port_ok
          \/ ~a.limit_ok
          \/ a.exists /\ ~a.force
          \/ a.extract # "ok"

\* C13: the command-line program ends with a non-zero exit status on every
\* failure path (option parsing fails, a required option is missing, port
\* or limit is not an integer, the output file exists without --force, or
\* extract returns an error) and with status zero only when extract
\* returned Ok (or only help was asked for).
C13_ExitStatusTellsFailure ==
    MainCalled =>
        /\ MainFailurePath(call.args) => call.ret.exit # 0
        /\ (call.ret.exit = 0 /\ ~call.args.help)
              => (call.ret.extracted /\ call.args.extract = "ok")

----------------------------------------------------------------------------
(* Claims about SqlDataType::from_string, under SpecFromString.            *)

FromStringCalled == call.fn = "from_string" /\ call.done

\* the parenthesized regions of str: from a "(" to a ")" of the same line
\* with at least one character between them
ParenRegions(str) ==
    {sp \in (1..Len(str)) \X (1..Len(str)) :
        /\ str[sp[1]] = "("
        /\ str[sp[2]] = ")"
        /\ sp[2] >= sp[1] + 2
        /\ \A k \in (sp[1] + 1)..(sp[2] - 1) : str[k] # "\n"}

\* str without its first parenthesized region, the region running to the
\* nearest closing parenthesis or to the farthest one
WithoutFirstRegion(str, nearest) ==
    IF ParenRegions(str) = {} THEN str
    ELSE LET from == CHOOSE i \in {sp[1] : sp \in ParenRegions(str)} :
                        \A sp \in ParenRegions(str) : i <= sp[1]
             ends == {sp[2] : sp \in {x \in ParenRegions(str) : x[1] = from}}
             to == CHOOSE j \in ends :
                      \A e \in ends : IF nearest THEN j <= e ELSE j >= e
         IN  SubSeq(str, 1, from - 1) \o SubSeq(str, to + 1, Len(str))

\* the tag of the one of the 14 names that rest, lowercased, equals
\* exactly; a fatal failure in every other case
TagOrPanic(rest) ==
    LET tags == {tn[2] : tn \in {x \in TypeNames : x[1] = to_lowercase(rest)}}
    IN  IF tags = {} THEN "panic" ELSE CHOOSE t \in tags : TRUE

TwoRegions == <<"(", "1", ")", "(", "2", ")">>

\* C14: for every input string s, from_string(s) removes only the first
\* parenthesized region of s, matched non-greedily (up to the nearest
\* closing parenthesis), lowercases the rest, and returns the tag of
\* whichever of the 14 names it equals exactly, failing fatally otherwise;
\* so a name followed by two parenthesized regions keeps the second
\* region and is rejected as unknown.
C14_FromStringStripsToNearestParen ==
    FromStringCalled =>
        /\ call.ret = TagOrPanic(WithoutFirstRegion(call.string, TRUE))
        /\ (\E n \in TypeNameTexts : call.string = n \o TwoRegions)
              => call.ret = "panic"

\* C14, amended: from_string(s) removes the first parenthesized region of
\* s matched greedily, from the first "(" that has a ")" later on its line
\* with at least one character between them up to the last such ")",
\* lowercases the rest, and returns the tag of whichever of the 14 names it
\* equals exactly, failing fatally otherwise; so numeric(38,10) and
\* VARCHAR(64) classify as Numeric and Varchar, and a name followed by two
\* parenthesized regions loses both and classifies as the name alone does.
C14_FromStringStripsToLastParen ==
    FromStringCalled =>
        /\ call.ret = TagOrPanic(WithoutFirstRegion(call.string, FALSE))
        /\ call.string = <<"n", "u", "m", "e", "r", "i", "c", "(", "3", "8",
                           ",", "1", "0", ")">> => call.ret = "Numeric"
        /\ call.string = <<"V", "A", "R", "C", "H", "A", "R", "(", "6", "4",
                           ")">> => call.ret = "Varchar"
        /\ \A n \in TypeNameTexts :
              call.string = n \o TwoRegions => call.ret = TagOrPanic(n)

C14_Witness ==
    /\ FromStringCalled
    /\ call.string = <<"i", "n", "t">> \o TwoRegions
    /\ call.ret = "Integer"

----------------------------------------------------------------------------
(* Claims about the TimeTz arm, under SpecTimeTz.                          *)

TimeTzCalled == call.fn = "timetz" /\ call.done

\* the seconds since midnight of the value given to the arm
TimeTzSecondOfDay ==
    U16FromLe(call.value, 1) * 3600 + U16FromLe(call.value, 3) * 60
        + U16FromLe(call.value, 5)

TimeTzValid ==
    /\ U16FromLe(call.value, 1) < 24
    /\ U16FromLe(call.value, 3) < 60
    /\ U16FromLe(call.value, 5) < 60
    /\ call.offset > -86400
    /\ call.offset < 86400

\* C15: for every valid TimeTz value and every local UTC offset strictly
\* between -24h and +24h, the emitted signed 64-bit integer does not
\* overflow, its low 24 bits equal offset_s = local offset in seconds +
\* 86400, and its remaining high bits equal T_us, the microseconds since
\* midnight.  T_us = seconds * 15625 * 64: its low 6 bits are 0, the next
\* 18 are the low 18 bits of seconds * 15625, the rest the bits above.
C15_TimeTzFieldsDoNotOverlap ==
    (TimeTzCalled /\ TimeTzValid) =>
        LET x == TimeTzSecondOfDay * 15625
            offset_s == call.offset + 86400
        IN  /\ call.ret.kind = "ok"
            /\ Len(call.ret.bytes) = 8
            /\ offset_s \in 1..(Pow2(24) - 1)
            /\ SubSeq(call.ret.bytes, 1, 3) = ToLeBytes(offset_s, 3)
            /\ SubSeq(call.ret.bytes, 4, 6)
                  = ToLeBytes((x % Pow2(18)) * 64, 3)
            /\ SubSeq(call.ret.bytes, 7, 8) = ToLeBytes(x \div Pow2(18), 2)
            /\ call.ret.bytes[8] < 32

C15_Witness ==
    /\ TimeTzCalled
    /\ TimeTzValid
    /\ TimeTzSecondOfDay = 86399
    /\ call.offset = -86399
    /\ call.ret.kind = "ok"

====
